---- MODULE Spec2Model ----
(***************************************************************************)
(* The foreign-call boundary of the wasm cache (src/src/cache.rs):         *)
(* init_cache, save_wasm, load_wasm and release_cache, together with the   *)
(* collaborators they call (Buffer, the error channel, the engine cache).  *)
(***************************************************************************)
EXTENDS Integers, Sequences, FiniteSets, TLC

\* ------------------------------------------------------------------ bounds
MaxAddr == 2        \* heap addresses a cache instance can be boxed at
MaxThreads == 2     \* host threads that call on one handle at the same time

\* ------------------------------------------------------- program constants
ChecksumLen == 2    \* length of a Checksum digest (words of the model)

NullPtr == 0
Addrs == 1..MaxAddr
Ptrs == 0..MaxAddr

\* argument names used in the empty-argument error (crate::args)
CACHE_ARG == "cache"
WASM_ARG == "wasm"
DATA_DIR_ARG == "data_dir"
FEATURES_ARG == "supported_features"

\* --------------------------------------------------------- Transfer Buffer
\* A Buffer is an address (null or not), a length and the bytes behind it.
Buf(bytes) == [isNull |-> FALSE, len |-> Len(bytes), data |-> bytes]
NullBuf == [isNull |-> TRUE, len |-> 0, data |-> <<>>]

None == [some |-> FALSE, val |-> <<>>]
Some(v) == [some |-> TRUE, val |-> v]

\* Buffer::read: absent for a null address or a zero length
read(b) == IF b.isNull \/ b.len = 0 THEN None ELSE Some(b.data)

\* Buffer::from_vec: an owned buffer holding exactly the vector's bytes
from_vec(v) == v

\* ------------------------------------------------------------------ errors
NoError == [cat |-> "none", name |-> ""]
empty_arg(n) == [cat |-> "empty_arg", name |-> n]
invalid_utf8 == [cat |-> "invalid_utf8", name |-> ""]
checksum_format == [cat |-> "checksum_format", name |-> ""]
not_found == [cat |-> "not_found", name |-> ""]
vm_err == [cat |-> "vm_err", name |-> ""]
vm_err_nul_dir == [cat |-> "vm_err", name |-> "nul byte in wasm dir"]
panic == [cat |-> "panic", name |-> ""]

\* Display of an error: the message set_error serialises
to_string(e) ==
  CASE e.cat = "empty_arg" /\ e.name = CACHE_ARG -> "Null/Empty argument: cache"
    [] e.cat = "empty_arg" /\ e.name = WASM_ARG -> "Null/Empty argument: wasm"
    [] e.cat = "empty_arg" /\ e.name = DATA_DIR_ARG -> "Null/Empty argument: data_dir"
    [] e.cat = "empty_arg" /\ e.name = FEATURES_ARG -> "Null/Empty argument: supported_features"
    [] e.cat = "invalid_utf8" -> "Input is not valid UTF-8"
    [] e.cat = "checksum_format" -> "Checksum not of expected length"
    [] e.cat = "not_found" -> "Module not found"
    [] e.cat = "vm_err" /\ e.name = "nul byte in wasm dir" ->
         "Error calling the VM: Cache error: Error creating Wasm dir for cache: data provided contains a nul byte"
    [] e.cat = "vm_err" -> "Error calling the VM"
    [] e.cat = "panic" -> "Caught panic"
    [] OTHER -> ""

\* Result values: Ok(v), Err(e), or an unwinding panic; engine records
\* whether the engine was reached while computing the result, calls how many
\* times it was called.
Ok(v, eng) ==
  [kind |-> "ok", val |-> v, err |-> NoError, engine |-> eng, calls |-> IF eng THEN 1 ELSE 0]
Err(e, eng) ==
  [kind |-> "err", val |-> <<>>, err |-> e, engine |-> eng, calls |-> IF eng THEN 1 ELSE 0]
Unwind(eng) ==
  [kind |-> "panic", val |-> <<>>, err |-> NoError, engine |-> eng, calls |-> IF eng THEN 1 ELSE 0]

\* catch_unwind(..).unwrap_or_else(|_| Err(Error::panic()))
catch_unwind(r) ==
  IF r.kind = "panic" THEN [Err(panic, r.engine) EXCEPT !.calls = r.calls] ELSE r

\* ------------------------------------------------------ the engine's cache
\* Numeric value of a byte string (little endian), the digest's payload
RECURSIVE Poly(_)
Poly(s) == IF s = <<>> THEN 0 ELSE Head(s) + 256 * Poly(Tail(s))

\* Checksum::generate: a fixed-length digest, a deterministic function of the
\* exact bytes (no two modules of the explored runs share a digest)
Digest(wasm) ==
  [i \in 1..ChecksumLen |->
     IF i = 1 THEN Len(wasm) ELSE IF i = 2 THEN Poly(wasm) ELSE 0]

\* the engine's module validation: a module starts with the wasm magic byte
check_wasm(wasm) == Len(wasm) >= 1 /\ wasm[1] = 0

\* a directory path the file system accepts holds no NUL byte
path_ok(dir) == \A i \in 1..Len(dir) : dir[i] # 0

\* EngineCache.new(options): fault is what the engine itself does in this call
\* ("none", or "panic": an internal fault that unwinds)
Cache_new(dir, fault) ==
  IF fault = "panic" THEN Unwind(TRUE)
  ELSE IF ~path_ok(dir) THEN Err(vm_err_nul_dir, TRUE)
  ELSE Ok(<<>>, TRUE)

\* instance.save(bytes): validates, computes the checksum, stores the module
\* under it; a failing call leaves the store as it was
Cache_save_wasm(st, wasm, fault) ==
  IF fault = "panic" THEN [res |-> Unwind(TRUE), store |-> st]
  ELSE IF ~check_wasm(wasm)
    THEN [res |-> Err(vm_err, TRUE), store |-> st]
  ELSE [res |-> Ok(Digest(wasm), TRUE),
        store |-> {e \in st : e.checksum # Digest(wasm)}
                    \cup {[checksum |-> Digest(wasm), wasm |-> wasm]}]

\* instance.load(checksum): the bytes stored under the checksum, or not found
Cache_load_wasm(st, checksum, fault) ==
  IF fault = "panic" THEN Unwind(TRUE)
  ELSE IF \E e \in st : e.checksum = checksum
    THEN Ok((CHOOSE e \in st : e.checksum = checksum).wasm, TRUE)
  ELSE Err(not_found, TRUE)

\* instance.drop(): fault is what the engine does while it is dropped
Cache_drop(fault) == IF fault = "panic" THEN Unwind(TRUE) ELSE Ok(<<>>, TRUE)

\* Checksum::try_from(&[u8]): only a slice of the digest length converts
Checksum_try_from(bytes) ==
  IF Len(bytes) = ChecksumLen THEN Some(bytes) ELSE None

\* str::from_utf8 / String::from_utf8 on the explored bytes: 0xFF never
\* occurs in UTF-8, NUL and ASCII letters always do
IsUtf8(bytes) == \A i \in 1..Len(bytes) : bytes[i] < 128

\* usize width of the build's platform; u32 -> usize cannot fail from 32 bits on
UsizeBits == 64
\* a target whose usize is narrower than u32
NarrowUsizeBits == 16
try_into_usize(x, bits) == IF bits >= 32 \/ x < 2 ^ bits THEN Some(x) ELSE None

\* ---------------------------------------------------------- error channel
\* set_error(err, errout): the message goes to the output parameter when the
\* caller supplied one; rec is the parameter's content before the call
set_error(e, errGiven, rec) == IF errGiven THEN from_vec(to_string(e)) ELSE rec

\* the process-wide last-error state after set_error / clear_error
last_error_set(e) == to_string(e)
clear_error == ""

\* handle_c_error(result, errout): Ok -> clear_error() and the value's bytes;
\* Err -> set_error and an empty vector
handle_c_error(r, errGiven, rec) ==
  IF r.kind = "ok"
    THEN [data |-> r.val, errRec |-> rec, lastError |-> clear_error]
    ELSE [data |-> <<>>, errRec |-> set_error(r.err, errGiven, rec),
          lastError |-> last_error_set(r.err)]

\* ------------------------------------------------------------ cache.rs
\* to_cache without the null check
to_cache_nonull(ptr) == Some(<<ptr>>)

\* to_cache: None for a null pointer, else the instance behind the pointer
to_cache(ptr) == IF ptr = NullPtr THEN None ELSE Some(<<ptr>>)

\* the sizes are converted with a cast that cannot fail
do_init_cache_cast(data_dir, supported_features, cache_size, instance_memory_limit, fault, bits) ==
  LET dir == read(data_dir)
      features_bin == read(supported_features)
  IN IF ~dir.some THEN Err(empty_arg(DATA_DIR_ARG), FALSE)
     ELSE IF ~IsUtf8(dir.val) THEN Err(invalid_utf8, FALSE)
     ELSE IF ~features_bin.some THEN Err(empty_arg(FEATURES_ARG), FALSE)
     ELSE IF ~IsUtf8(features_bin.val) THEN Err(invalid_utf8, FALSE)
     ELSE Cache_new(dir.val, fault)

\* do_init_cache: argument checks, size conversions, engine construction
do_init_cache(data_dir, supported_features, cache_size, instance_memory_limit, fault, bits) ==
  LET dir == read(data_dir)
      features_bin == read(supported_features)
  IN IF ~dir.some THEN Err(empty_arg(DATA_DIR_ARG), FALSE)
     ELSE IF ~IsUtf8(dir.val) THEN Err(invalid_utf8, FALSE)
     ELSE IF ~features_bin.some THEN Err(empty_arg(FEATURES_ARG), FALSE)
     ELSE IF ~IsUtf8(features_bin.val) THEN Err(invalid_utf8, FALSE)
     ELSE IF ~try_into_usize(cache_size, bits).some THEN Unwind(FALSE)
     ELSE IF ~try_into_usize(instance_memory_limit, bits).some THEN Unwind(FALSE)
     ELSE Cache_new(dir.val, fault)

\* init_cache, the match on r: the boxed instance's address or null
init_cache_ret(r, a) == IF r.kind = "ok" THEN a ELSE NullPtr

\* the instance is boxed as soon as the engine built it, also when the call
\* then fails
init_cache_boxed_leak(r) == r.engine

\* init_cache, the match on r: whether the instance was boxed and leaked to
\* the heap (Box::into_raw runs only on the Ok path of do_init_cache)
init_cache_boxed(r) == r.kind = "ok"

\* the Err arm drops the error instead of handing it to set_error
init_cache_err_silent(r, errGiven, rec) ==
  [errRec |-> rec, lastError |-> IF r.kind = "ok" THEN clear_error ELSE last_error_set(r.err)]

\* init_cache, the match on r: Ok -> clear_error(); Err -> set_error(e, err)
init_cache_err(r, errGiven, rec) ==
  IF r.kind = "ok"
    THEN [errRec |-> rec, lastError |-> clear_error]
    ELSE [errRec |-> set_error(r.err, errGiven, rec),
          lastError |-> last_error_set(r.err)]

\* the engine is handed the module without its last byte
do_save_wasm_trunc(st, wasm, fault) ==
  LET w == read(wasm)
  IN IF ~w.some THEN [res |-> Err(empty_arg(WASM_ARG), FALSE), store |-> st]
     ELSE Cache_save_wasm(st, SubSeq(w.val, 1, Len(w.val) - 1), fault)

\* a module that is already stored is reported as an engine error
do_save_wasm_exists(st, wasm, fault) ==
  LET w == read(wasm)
  IN IF ~w.some THEN [res |-> Err(empty_arg(WASM_ARG), FALSE), store |-> st]
     ELSE IF \E e \in st : e.wasm = w.val THEN [res |-> Err(vm_err, TRUE), store |-> st]
     ELSE Cache_save_wasm(st, w.val, fault)

\* the module buffer goes to the engine without the empty check
do_save_wasm_nocheck(st, wasm, fault) == Cache_save_wasm(st, wasm.data, fault)

\* do_save_wasm: read the module bytes, hand them to the engine
do_save_wasm(st, wasm, fault) ==
  LET w == read(wasm)
  IN IF ~w.some THEN [res |-> Err(empty_arg(WASM_ARG), FALSE), store |-> st]
     ELSE Cache_save_wasm(st, w.val, fault)

\* every call works on a copy of the instance as it was created, so that
\* what other calls have stored is lost
save_wasm_result_copy(cache, st, wasm, fault) ==
  IF to_cache(cache).some
    THEN LET d == do_save_wasm({}, wasm, fault)
         IN [res |-> catch_unwind(d.res), store |-> d.store]
    ELSE [res |-> Err(empty_arg(CACHE_ARG), FALSE), store |-> st]

\* a call whose closure panicked is run a second time before the error is reported
save_wasm_result_retry(cache, st, wasm, fault) ==
  IF to_cache(cache).some
    THEN LET d == do_save_wasm(st, wasm, fault)
             d2 == do_save_wasm(d.store, wasm, fault)
         IN IF d.res.kind = "panic"
              THEN [res |-> [catch_unwind(d2.res) EXCEPT !.calls = d.res.calls + d2.res.calls],
                    store |-> d2.store]
              ELSE [res |-> catch_unwind(d.res), store |-> d.store]
    ELSE [res |-> Err(empty_arg(CACHE_ARG), FALSE), store |-> st]

\* save_wasm, the match on to_cache
save_wasm_result(cache, st, wasm, fault) ==
  IF to_cache(cache).some
    THEN LET d == do_save_wasm(st, wasm, fault)
         IN [res |-> catch_unwind(d.res), store |-> d.store]
    ELSE [res |-> Err(empty_arg(CACHE_ARG), FALSE), store |-> st]

\* a missing module is returned as an empty result instead of an error
do_load_wasm_silent(st, contract_checksum, fault) ==
  LET c == read(contract_checksum)
  IN IF ~c.some THEN Err(empty_arg(CACHE_ARG), FALSE)
     ELSE IF ~Checksum_try_from(c.val).some THEN Err(checksum_format, FALSE)
     ELSE LET r == Cache_load_wasm(st, Checksum_try_from(c.val).val, fault)
          IN IF r.kind = "err" /\ r.err = not_found THEN Ok(<<>>, TRUE) ELSE r

\* the checksum bytes go to the engine without the length conversion
do_load_wasm_nolen(st, contract_checksum, fault) ==
  LET c == read(contract_checksum)
  IN IF ~c.some THEN Err(empty_arg(CACHE_ARG), FALSE)
     ELSE Cache_load_wasm(st, c.val, fault)

\* do_load_wasm: read the checksum bytes, convert them, look the module up
do_load_wasm(st, contract_checksum, fault) ==
  LET c == read(contract_checksum)
  IN IF ~c.some THEN Err(empty_arg(CACHE_ARG), FALSE)
     ELSE IF ~Checksum_try_from(c.val).some THEN Err(checksum_format, FALSE)
     ELSE Cache_load_wasm(st, Checksum_try_from(c.val).val, fault)

\* load_wasm looks the checksum up in a copy of the instance that holds only
\* one module
load_wasm_result_copy(cache, st, contract_checksum, fault) ==
  IF to_cache(cache).some
    THEN catch_unwind(do_load_wasm(IF st = {} THEN {} ELSE {CHOOSE e \in st : TRUE},
                                   contract_checksum, fault))
    ELSE Err(empty_arg(CACHE_ARG), FALSE)

\* load_wasm, the match on to_cache
load_wasm_result(cache, st, contract_checksum, fault) ==
  IF to_cache(cache).some
    THEN catch_unwind(do_load_wasm(st, contract_checksum, fault))
    ELSE Err(empty_arg(CACHE_ARG), FALSE)

\* release_cache: what the call hands back to the host. The box is dropped
\* in the body of the extern function itself, with no catch_unwind around it,
\* so a panic of the drop unwinds out of the call.
release_cache_result(cache, fault) ==
  IF cache # NullPtr THEN Cache_drop(fault) ELSE Ok(<<>>, FALSE)

\* the null check of release_cache is lost: a null pointer releases what is allocated
release_cache_freed_null_all(cache) == IF cache # NullPtr THEN {cache} ELSE Addrs

\* the box is never reclaimed
release_cache_freed_none(cache) == {}

\* release_cache: the addresses whose instance the call frees
release_cache_freed(cache) == IF cache # NullPtr THEN {cache} ELSE {}

\* the element of a one-element set
The(S) == CHOOSE x \in S : TRUE

\* init_cache as a whole: the result of the closure, the pointer returned,
\* whether an instance was boxed at a, and what the call leaves in the Error
\* Record rec and in the last error
init_cache_call(data_dir, supported_features, cache_size, instance_memory_limit, errGiven, fault, a, rec, bits) ==
  The({The({[res |-> r, handle |-> init_cache_ret(r, a), boxed |-> init_cache_boxed(r),
             errRec |-> e.errRec, lastError |-> e.lastError]
            : e \in {init_cache_err(r, errGiven, rec)}})
       : r \in {catch_unwind(do_init_cache(data_dir, supported_features, cache_size,
                                           instance_memory_limit, fault, bits))}})

\* set_error unwraps err: a failure reported with no err given panics
save_wasm_call_unwrap_err(cache, st, wasm, errGiven, fault, rec) ==
  The({The({[res |-> IF d.res.kind = "err" /\ ~errGiven
                       THEN [Unwind(d.res.engine) EXCEPT !.calls = d.res.calls]
                       ELSE d.res,
             store |-> d.store, ret |-> from_vec(out.data),
             errRec |-> out.errRec, lastError |-> out.lastError]
            : out \in {handle_c_error(d.res, errGiven, rec)}})
       : d \in {save_wasm_result(cache, st, wasm, fault)}})

\* save_wasm as a whole: the result of the match, the modules the instance
\* holds afterwards, the buffer returned, and what the call leaves in the Error
\* Record rec and in the last error
save_wasm_call(cache, st, wasm, errGiven, fault, rec) ==
  The({The({[res |-> d.res, store |-> d.store, ret |-> from_vec(out.data),
             errRec |-> out.errRec, lastError |-> out.lastError]
            : out \in {handle_c_error(d.res, errGiven, rec)}})
       : d \in {save_wasm_result(cache, st, wasm, fault)}})

\* load_wasm as a whole
load_wasm_call(cache, st, contract_checksum, errGiven, fault, rec) ==
  The({The({[res |-> r, ret |-> from_vec(out.data),
             errRec |-> out.errRec, lastError |-> out.lastError]
            : out \in {handle_c_error(r, errGiven, rec)}})
       : r \in {load_wasm_result(cache, st, contract_checksum, fault)}})

\* ------------------------------------------------------------------- state
VARIABLES
  heap,        \* addresses that hold a boxed cache instance
  store,       \* store[a]: the (checksum, module) entries of the instance at a
  hostLive,    \* handles init_cache returned that the host has not released
  returned,    \* returned[a]: the (checksum, module) pairs save_wasm returned on the handle at a
  errRec,      \* the host's Error Record (the Buffer it passes as err); "" is zero length
  lastError,   \* the process-wide last-error state
  last,        \* the last boundary call: its arguments and what it returned
  disciplined, \* the host has kept the handle contract so far
  crashed,     \* undefined behaviour brought the process down
  threads      \* threads[t]: where host thread t is in the call it is making

vars == <<heap, store, hostLive, returned, errRec, lastError, last, disciplined, crashed,
          threads>>

\* ------------------------------------------------------------------ inputs
Modules == {<<0>>, <<0, 97>>, <<97>>}
WasmInputs == {NullBuf, Buf(<<>>)} \cup {Buf(m) : m \in Modules}
ChecksumInputs ==
  {NullBuf, Buf(<<>>), Buf(<<1>>), Buf(Digest(<<0>>) \o <<0>>)}
    \cup {Buf(Digest(m)) : m \in Modules}
\* (data_dir, supported_features) pairs: each argument absent, empty, not
\* UTF-8, a path with a NUL byte, and a valid pair
InitInputs ==
  {<<NullBuf, Buf(<<97>>)>>, <<Buf(<<>>), Buf(<<97>>)>>, <<Buf(<<255>>), Buf(<<97>>)>>,
   <<Buf(<<97, 0>>), Buf(<<97>>)>>, <<Buf(<<97>>), NullBuf>>,
   <<Buf(<<97>>), Buf(<<255>>)>>, <<Buf(<<97>>), Buf(<<97>>)>>}
CacheSizeInputs == {512}
MemoryLimitInputs == {32}
\* what the engine does in a call beyond its answer to the arguments: nothing,
\* or an internal fault that unwinds (its errors come from the arguments: a
\* path with a NUL byte, an invalid module, a checksum it does not hold)
Faults == {"none", "panic"}

\* known: the handle had already returned this module (save_wasm) or this
\* checksum (load_wasm) when the call was made
Call(op, cache, arg, arg2, errGiven, fault, known, r, ret, handle) ==
  [op |-> op, cache |-> cache, arg |-> arg, arg2 |-> arg2, errGiven |-> errGiven,
   fault |-> fault, known |-> known, kind |-> r.kind, err |-> r.err, engine |-> r.engine,
   calls |-> r.calls, ret |-> ret, handle |-> handle, sizes |-> <<0, 0>>]

NoCall == Call("none", NullPtr, NullBuf, NullBuf, FALSE, "none", FALSE, Ok(<<>>, FALSE), <<>>, NullPtr)

\* host threads that call into the library at the same time
Threads == 1..MaxThreads

\* a thread that is in no call and has made none. pc: the call the thread is
\* in; op, arg, fault: its last call and what the engine did in it; kind, ret,
\* err: what that call returned and left in the thread's own Error Record;
\* overlapped: another thread was inside a call when this one returned; mine:
\* the (checksum, module) pairs save_wasm has returned to this thread
IdleThread ==
  [pc |-> "idle", op |-> "none", arg |-> NullBuf, fault |-> "none", kind |-> "ok",
   ret |-> <<>>, err |-> "", overlapped |-> FALSE, mine |-> {}]

\* the host calls from one thread at a time
NoThreads == <<>>

Init ==
  /\ heap = {}
  /\ store = [a \in Addrs |-> {}]
  /\ hostLive = {}
  /\ returned = [a \in Addrs |-> {}]
  /\ errRec = ""
  /\ lastError = ""
  /\ last = NoCall
  /\ disciplined = TRUE
  /\ crashed = FALSE
  /\ threads = NoThreads

\* ----------------------------------------------------------------- actions
\* Once the host has broken the handle contract, or a panic has unwound out of
\* a boundary call into the host, the behaviour of the process is undefined,
\* and no further call is modelled.
Defined == disciplined /\ last.kind # "panic"

\* init_cache(data_dir, supported_features, cache_size, instance_memory_limit, err);
\* a is the address Box::new places the instance at (a call that boxes nothing
\* is explored for one address only); a fault is what the engine does in this
\* call, so only a call that reaches the engine has one
init_cache(data_dir, supported_features, cache_size, instance_memory_limit, errGiven, fault, a, bits) ==
  /\ Defined
  /\ a \in Addrs \ heap
  /\ \E c \in {init_cache_call(data_dir, supported_features, cache_size,
                              instance_memory_limit, errGiven, fault, a, errRec, bits)} :
     \E r \in {c.res} :
     \E h \in {c.handle} :
     \E e \in {c} :
     \E boxed \in {c.boxed} :
        /\ fault # "none" => r.engine
        /\ (~boxed /\ h = NullPtr) => \A b \in Addrs \ heap : a <= b
        /\ heap' = IF boxed THEN heap \cup {a} ELSE heap
        /\ store' = IF boxed THEN [store EXCEPT ![a] = {}] ELSE store
        /\ returned' = IF boxed THEN [returned EXCEPT ![a] = {}] ELSE returned
        /\ hostLive' = IF h # NullPtr THEN hostLive \cup {h} ELSE hostLive
        /\ errRec' = e.errRec
        /\ lastError' = e.lastError
        /\ last' = [Call("init_cache", NullPtr, data_dir, supported_features, errGiven, fault,
                         FALSE, r, <<>>, h)
                      EXCEPT !.sizes = <<cache_size, instance_memory_limit>>]
  /\ UNCHANGED <<disciplined, crashed, threads>>

\* save_wasm(cache, wasm, err) on a null pointer or a pointer to an instance
save_wasm(cache, wasm, errGiven, fault) ==
  /\ Defined
  /\ cache = NullPtr \/ cache \in heap
  /\ \E st \in {IF cache = NullPtr THEN {} ELSE store[cache]} :
     \E d \in {save_wasm_call(cache, st, wasm, errGiven, fault, errRec)} :
     \E out \in {d} :
     \E ret \in {d.ret} :
        /\ fault # "none" => d.res.engine
        /\ store' = IF cache = NullPtr THEN store ELSE [store EXCEPT ![cache] = d.store]
        /\ returned' = IF cache # NullPtr /\ d.res.kind = "ok"
                         THEN [returned EXCEPT ![cache] = @ \cup
                                 {[checksum |-> ret, wasm |-> read(wasm).val]}]
                         ELSE returned
        /\ errRec' = out.errRec
        /\ lastError' = out.lastError
        /\ last' = Call("save_wasm", cache, wasm, NullBuf, errGiven, fault,
                        cache # NullPtr /\ \E p \in returned[cache] : wasm = Buf(p.wasm),
                        d.res, ret, NullPtr)
  /\ UNCHANGED <<heap, hostLive, disciplined, crashed, threads>>

\* load_wasm(cache, contract_checksum, err) on a null pointer or a pointer to an instance
load_wasm(cache, contract_checksum, errGiven, fault) ==
  /\ Defined
  /\ cache = NullPtr \/ cache \in heap
  /\ \E st \in {IF cache = NullPtr THEN {} ELSE store[cache]} :
     \E c \in {load_wasm_call(cache, st, contract_checksum, errGiven, fault, errRec)} :
     \E r \in {c.res} :
     \E out \in {c} :
     \E ret \in {c.ret} :
        /\ fault # "none" => r.engine
        /\ errRec' = out.errRec
        /\ lastError' = out.lastError
        /\ last' = Call("load_wasm", cache, contract_checksum, NullBuf, errGiven, fault,
                        cache # NullPtr /\ \E p \in returned[cache] : contract_checksum = Buf(p.checksum),
                        r, ret, NullPtr)
  /\ UNCHANGED <<heap, store, hostLive, returned, disciplined, crashed, threads>>

\* What undefined behaviour leaves behind: the process goes down or runs on
\* with a heap in which any set of the instances survives, and nothing the
\* host or the model recorded about the process means anything from here on.
Undefined(crash, survivors) ==
  /\ crashed' = crash
  /\ heap' = survivors
  /\ store' = [a \in Addrs |-> {}]
  /\ returned' = [a \in Addrs |-> {}]
  /\ hostLive' = {}
  /\ errRec' = ""
  /\ lastError' = ""
  /\ UNCHANGED threads

\* release_cache(cache) on a null pointer or a pointer to an instance. A
\* panic of the drop is not caught: it unwinds through the extern "C" frame
\* into the host, which is undefined behaviour.
release_cache(cache, fault) ==
  /\ Defined
  /\ cache = NullPtr \/ cache \in heap
  /\ \E r \in {release_cache_result(cache, fault)} :
       /\ fault # "none" => r.engine
       /\ last' = Call("release_cache", cache, NullBuf, NullBuf, FALSE, fault, FALSE,
                       r, <<>>, NullPtr)
       /\ IF r.kind = "panic"
            THEN /\ \E crash \in BOOLEAN, survivors \in {{}, heap \ {cache}, heap} :
                      /\ crash => survivors = {}
                      /\ Undefined(crash, survivors)
                 /\ UNCHANGED disciplined
            ELSE /\ LET freed == release_cache_freed(cache)
                    IN /\ heap' = heap \ freed
                       /\ store' = [a \in Addrs |-> IF a \in freed THEN {} ELSE store[a]]
                       /\ returned' = [a \in Addrs |-> IF a \in freed THEN {} ELSE returned[a]]
                 /\ hostLive' = hostLive \ {cache}
                 /\ UNCHANGED <<errRec, lastError, disciplined, crashed, threads>>

\* save_wasm / load_wasm through a pointer that holds no instance (released or
\* never returned by init_cache): a use after free
use_dangling(op, cache, crash, survivors) ==
  /\ Defined
  /\ cache \in Addrs \ heap
  /\ survivors \subseteq heap
  /\ crash => survivors = {}
  /\ last' = Call(op, cache, NullBuf, NullBuf, FALSE, "none", FALSE, Ok(<<>>, FALSE), <<>>, NullPtr)
  /\ disciplined' = FALSE
  /\ Undefined(crash, survivors)

\* release_cache through a pointer that holds no instance: a double free, or
\* the free of a pointer init_cache never returned
release_dangling(cache, crash, survivors) ==
  /\ Defined
  /\ cache \in Addrs \ heap
  /\ survivors \subseteq heap
  /\ crash => survivors = {}
  /\ last' = Call("release_cache", cache, NullBuf, NullBuf, FALSE, "none", FALSE, Ok(<<>>, FALSE), <<>>, NullPtr)
  /\ disciplined' = FALSE
  /\ Undefined(crash, survivors)

\* the host consumes the message in its Error Record (Buffer::consume), which
\* leaves the record empty
consume_err ==
  /\ Defined
  /\ errRec # ""
  /\ errRec' = ""
  /\ last' = Call("consume_err", NullPtr, NullBuf, NullBuf, FALSE, "none", FALSE, Ok(<<>>, FALSE), <<>>, NullPtr)
  /\ UNCHANGED <<heap, store, hostLive, returned, lastError, disciplined, crashed,
                 threads>>

DoInit ==
  \E args \in InitInputs, cache_size \in CacheSizeInputs,
     instance_memory_limit \in MemoryLimitInputs,
     errGiven \in BOOLEAN, fault \in Faults, a \in Addrs :
    init_cache(args[1], args[2], cache_size, instance_memory_limit, errGiven, fault, a, UsizeBits)

DoSave ==
  \E cache \in Ptrs, wasm \in WasmInputs, errGiven \in BOOLEAN, fault \in Faults :
    save_wasm(cache, wasm, errGiven, fault)

DoLoad ==
  \E cache \in Ptrs, contract_checksum \in ChecksumInputs, errGiven \in BOOLEAN, fault \in Faults :
    load_wasm(cache, contract_checksum, errGiven, fault)

DoRelease == \E cache \in Ptrs, fault \in Faults : release_cache(cache, fault)

DoUseDangling ==
  \E op \in {"save_wasm", "load_wasm"}, cache \in Addrs, crash \in BOOLEAN,
     survivors \in SUBSET Addrs :
    use_dangling(op, cache, crash, survivors)

DoReleaseDangling ==
  \E cache \in Addrs, crash \in BOOLEAN, survivors \in SUBSET Addrs :
    release_dangling(cache, crash, survivors)

Next ==
  \/ DoInit
  \/ DoSave
  \/ DoLoad
  \/ DoRelease
  \/ DoUseDangling
  \/ DoReleaseDangling
  \/ consume_err

Spec == Init /\ [][Next]_vars

\* The same library built for a target whose usize is narrower than u32, where
\* a size given to init_cache may not fit.
NarrowInitInputs ==
  {<<NullBuf, Buf(<<97>>)>>, <<Buf(<<97>>), Buf(<<255>>)>>, <<Buf(<<97>>), Buf(<<97>>)>>}
\* (cache_size, instance_memory_limit): both fit, or one of them does not
NarrowSizeInputs ==
  {<<512, 32>>, <<2 ^ NarrowUsizeBits, 32>>, <<512, 2 ^ NarrowUsizeBits>>}

DoInitNarrow ==
  \E args \in NarrowInitInputs, sizes \in NarrowSizeInputs,
     errGiven \in BOOLEAN, fault \in Faults, a \in Addrs :
    init_cache(args[1], args[2], sizes[1], sizes[2], errGiven, fault, a, NarrowUsizeBits)

NextNarrow ==
  \/ DoInitNarrow
  \/ DoSave
  \/ DoLoad
  \/ DoRelease
  \/ DoUseDangling
  \/ DoReleaseDangling
  \/ consume_err

SpecNarrow == Init /\ [][NextNarrow]_vars

\* ------------------------------------------------------- concurrent callers
\* Host threads share one live handle and call save_wasm and load_wasm on it
\* at the same time, each with an Error Record of its own. A call is two
\* steps: the thread enters the call, and the engine serves it (the engine
\* serialises the operations on an instance) and the call returns. The other
\* calls of a thread may come between the two steps.
ConcHandle == 1
\* the threads save modules the engine accepts, and load them back
ConcModules == {m \in Modules : check_wasm(m)}
ConcWasmInputs == {Buf(m) : m \in ConcModules}
ConcChecksumInputs == {Buf(Digest(m)) : m \in ConcModules}

InitConc ==
  /\ heap = {ConcHandle}
  /\ store = [a \in Addrs |-> {}]
  /\ hostLive = {ConcHandle}
  /\ returned = [a \in Addrs |-> {}]
  /\ errRec = ""
  /\ lastError = ""
  /\ last = NoCall
  /\ disciplined = TRUE
  /\ crashed = FALSE
  /\ threads = [t \in Threads |-> IdleThread]

InFlight(t) == threads[t].pc # "idle"

\* thread t enters save_wasm(cache, wasm, err) or load_wasm(cache, checksum, err)
enter(t, op, cache, arg) ==
  /\ ~InFlight(t)
  /\ cache \in heap
  /\ threads' = [threads EXCEPT ![t] =
                   [pc |-> op, op |-> op, arg |-> arg, fault |-> "none", kind |-> "ok",
                    ret |-> <<>>, err |-> "", overlapped |-> FALSE, mine |-> @.mine]]
  /\ UNCHANGED <<heap, store, hostLive, returned, errRec, lastError, last, disciplined, crashed>>

\* the save_wasm call of thread t is served and returns
return_save(t, cache, fault) ==
  /\ threads[t].pc = "save_wasm"
  /\ cache \in heap
  /\ \E d \in {save_wasm_call(cache, store[cache], threads[t].arg, TRUE, fault, "")} :
     \E pair \in {[checksum |-> d.ret, wasm |-> read(threads[t].arg).val]} :
        /\ fault # "none" => d.res.engine
        /\ store' = [store EXCEPT ![cache] = d.store]
        /\ returned' = IF d.res.kind = "ok"
                         THEN [returned EXCEPT ![cache] = @ \cup {pair}]
                         ELSE returned
        /\ lastError' = d.lastError
        /\ threads' = [threads EXCEPT ![t] =
                         [pc |-> "idle", op |-> @.op, arg |-> @.arg, fault |-> fault,
                          kind |-> d.res.kind,
                          ret |-> d.ret, err |-> d.errRec,
                          overlapped |-> \E u \in Threads \ {t} : InFlight(u),
                          mine |-> IF d.res.kind = "ok" THEN @.mine \cup {pair} ELSE @.mine]]
  /\ UNCHANGED <<heap, hostLive, errRec, last, disciplined, crashed>>

\* the load_wasm call of thread t is served and returns
return_load(t, cache, fault) ==
  /\ threads[t].pc = "load_wasm"
  /\ cache \in heap
  /\ \E c \in {load_wasm_call(cache, store[cache], threads[t].arg, TRUE, fault, "")} :
        /\ fault # "none" => c.res.engine
        /\ lastError' = c.lastError
        /\ threads' = [threads EXCEPT ![t] =
                         [pc |-> "idle", op |-> @.op, arg |-> @.arg, fault |-> fault,
                          kind |-> c.res.kind,
                          ret |-> c.ret, err |-> c.errRec,
                          overlapped |-> \E u \in Threads \ {t} : InFlight(u),
                          mine |-> @.mine]]
  /\ UNCHANGED <<heap, store, hostLive, returned, errRec, last, disciplined, crashed>>

EnterSave == \E t \in Threads, wasm \in ConcWasmInputs : enter(t, "save_wasm", ConcHandle, wasm)

EnterLoad ==
  \E t \in Threads, contract_checksum \in ConcChecksumInputs :
    enter(t, "load_wasm", ConcHandle, contract_checksum)

ReturnSave == \E t \in Threads, fault \in Faults : return_save(t, ConcHandle, fault)

ReturnLoad == \E t \in Threads, fault \in Faults : return_load(t, ConcHandle, fault)

NextConc ==
  \/ EnterSave
  \/ EnterLoad
  \/ ReturnSave
  \/ ReturnLoad

SpecConc == InitConc /\ [][NextConc]_vars

\* ------------------------------------------------------------------ claims
BoundaryOps == {"init_cache", "save_wasm", "load_wasm"}

\* the last call was op, made on a live handle by a host keeping the contract
OnLive(call, op) == call.op = op /\ call.cache \in Addrs

\* C1: round trip. Once save_wasm(h, m) has returned checksum c on a live
\* handle h, every later load_wasm(h, c) before release_cache(h) in which the
\* engine itself does not fail succeeds and returns exactly m, whatever other
\* save_wasm / load_wasm calls were made on h in between.
C1_RoundTrip ==
  (disciplined /\ OnLive(last, "load_wasm") /\ last.fault = "none")
    => \A p \in returned[last.cache] :
         last.arg = Buf(p.checksum) => (last.kind = "ok" /\ last.ret = p.wasm)

\* a load of the first of two modules saved on the handle returns its bytes
C1_Witness ==
  /\ disciplined /\ OnLive(last, "load_wasm") /\ last.kind = "ok"
  /\ last.ret = <<0, 97>>
  /\ Cardinality(returned[last.cache]) = 2
  /\ \E p \in returned[last.cache] : last.arg = Buf(p.checksum)

\* C2: save_wasm is idempotent. A save_wasm on a live handle of bytes m that an
\* earlier save_wasm on the handle already stored (the engine not failing in
\* the call) succeeds, returns the checksum the earlier call returned, and
\* leaves every instance's stored (checksum, module) pairs as they were.
C2_Resave ==
  /\ disciplined' /\ OnLive(last', "save_wasm") /\ last'.fault = "none"
  /\ \E p \in returned[last'.cache] : last'.arg = Buf(p.wasm)

C2_Idempotent ==
  [][C2_Resave =>
       /\ last'.kind = "ok"
       /\ \A p \in returned[last'.cache] :
            last'.arg = Buf(p.wasm) => last'.ret = p.checksum
       /\ store' = store
       /\ returned' = returned]_vars

\* a module is saved again on a handle that holds two modules
C2_Witness ==
  /\ disciplined /\ OnLive(last, "save_wasm") /\ last.kind = "ok"
  /\ last.known
  /\ last.arg = Buf(<<0>>)
  /\ Cardinality(store[last.cache]) = 2

\* C3: a failing init_cache, save_wasm or load_wasm returns its sentinel (a null
\* handle, a zero-length buffer) and, when err was supplied, leaves a non-empty
\* message in the Error Record; a sentinel never comes with an empty Error
\* Record when err was supplied.
C3_FailureReported ==
  (disciplined /\ last.op \in BoundaryOps)
    => /\ last.kind = "err" =>
            /\ last.handle = NullPtr
            /\ last.ret = <<>>
            /\ last.errGiven => errRec # ""
       /\ (last.op = "init_cache" /\ last.handle = NullPtr /\ last.errGiven) => errRec # ""
       /\ (last.op # "init_cache" /\ last.ret = <<>> /\ last.errGiven) => errRec # ""

\* init_cache failed on a path with a NUL byte and wrote the engine's message
C3_Witness ==
  /\ last.op = "init_cache" /\ last.kind = "err" /\ last.errGiven
  /\ last.arg = Buf(<<97, 0>>)
  /\ last.handle = NullPtr
  /\ errRec = to_string(vm_err_nul_dir)
  /\ errRec # ""

\* C4: after every successful init_cache, save_wasm or load_wasm that was given
\* err, the Error Record has length zero, whatever it held before the call.
C4_ClearedOnSuccess ==
  (disciplined /\ last.op \in BoundaryOps /\ last.kind = "ok" /\ last.errGiven)
    => errRec = ""

\* C5: save_wasm and load_wasm on a null handle fail with the empty-handle
\* error for every buffer argument, return a zero-length buffer, never reach
\* the engine and leave every cache instance as it was.
C5_NullHandle ==
  [][(last'.op \in {"save_wasm", "load_wasm"} /\ last'.cache = NullPtr)
       => /\ last'.kind = "err"
          /\ last'.err = empty_arg(CACHE_ARG)
          /\ last'.ret = <<>>
          /\ ~last'.engine
          /\ heap' = heap
          /\ store' = store
          /\ returned' = returned]_vars

\* a valid module is saved through a null handle while an instance holding a
\* module is allocated
C5_Witness ==
  /\ last.op = "save_wasm" /\ last.cache = NullPtr
  /\ last.arg = Buf(<<0, 97>>)
  /\ last.kind = "err"
  /\ \E a \in heap : store[a] # {}

\* C6: save_wasm on a live handle with a null or a zero-length module buffer
\* fails with the empty-argument error naming the module argument, returns a
\* zero-length buffer and leaves the stored modules unchanged; the two buffers
\* are rejected the same way.
C6_EmptyModule ==
  [][(disciplined' /\ OnLive(last', "save_wasm")
        /\ (last'.arg.isNull \/ last'.arg.len = 0))
       => /\ last'.kind = "err"
          /\ last'.err = empty_arg(WASM_ARG)
          /\ last'.ret = <<>>
          /\ ~last'.engine
          /\ store' = store]_vars

\* a zero-length (non-null) module buffer is rejected on a handle holding a module
C6_Witness ==
  /\ disciplined /\ OnLive(last, "save_wasm")
  /\ last.arg = Buf(<<>>)
  /\ last.kind = "err"
  /\ store[last.cache] # {}

\* the error load_wasm reports for a checksum of malformed length
MalformedLengthError == do_load_wasm({}, Buf(<<1>>), "none").err

\* C7: load_wasm on a live handle with a checksum of the digest length that no
\* earlier save_wasm on the handle has returned fails (the engine itself not
\* failing) with the not-found error, whose category differs from that of the
\* error reported for a checksum of malformed length.
C7_NotFound ==
  (disciplined /\ OnLive(last, "load_wasm") /\ last.fault = "none"
     /\ ~last.arg.isNull /\ last.arg.len = ChecksumLen
     /\ \A p \in returned[last.cache] : p.checksum # last.arg.data)
    => /\ last.kind = "err"
       /\ last.err = not_found
       /\ last.ret = <<>>
       /\ last.err.cat # MalformedLengthError.cat

\* a well-formed checksum that was never returned is looked up on a handle
\* that holds another module
C7_Witness ==
  /\ disciplined /\ OnLive(last, "load_wasm") /\ last.fault = "none"
  /\ last.arg = Buf(Digest(<<97>>))
  /\ last.err = not_found
  /\ returned[last.cache] # {}

\* C8 as stated: load_wasm on a live handle with a checksum buffer of any
\* length other than the digest length fails with the checksum-format error
\* before any engine lookup.
C8_Original ==
  (disciplined /\ OnLive(last, "load_wasm")
     /\ (last.arg.isNull \/ last.arg.len # ChecksumLen))
    => /\ last.kind = "err"
       /\ last.err = checksum_format
       /\ ~last.engine
       /\ last.ret = <<>>

\* C8 amended: load_wasm on a live handle with a checksum buffer whose length
\* is not the digest length fails before any engine lookup, never with
\* not-found and never returning bytes: with the checksum-format error for
\* every non-zero length, and with the empty-argument error for a null or
\* zero-length buffer.
C8_MalformedLength ==
  (disciplined /\ OnLive(last, "load_wasm")
     /\ (last.arg.isNull \/ last.arg.len # ChecksumLen))
    => /\ last.kind = "err"
       /\ ~last.engine
       /\ last.ret = <<>>
       /\ last.err # not_found
       /\ IF last.arg.isNull \/ last.arg.len = 0
            THEN last.err.cat = "empty_arg"
            ELSE last.err = checksum_format

\* a checksum one word too long is rejected on a handle that holds the module
\* whose checksum is its prefix
C8_Witness ==
  /\ disciplined /\ OnLive(last, "load_wasm")
  /\ last.arg = Buf(Digest(<<0>>) \o <<0>>)
  /\ last.err = checksum_format
  /\ \E p \in returned[last.cache] : p.wasm = <<0>>

\* the arguments on which init_cache must fail: an absent or empty buffer, a
\* byte that is not UTF-8, a NUL byte in the directory
BadInitArgs(call) ==
  \/ call.arg.isNull \/ call.arg.len = 0
  \/ call.arg2.isNull \/ call.arg2.len = 0
  \/ \E i \in 1..Len(call.arg.data) : call.arg.data[i] \in {0, 255}
  \/ \E i \in 1..Len(call.arg2.data) : call.arg2.data[i] = 255

\* C9: init_cache either succeeds, returning a non-null handle to exactly one
\* newly allocated cache instance, or fails, returning a null handle,
\* populating the Error Record (when supplied) and allocating no instance; it
\* fails on an absent or empty argument, on invalid UTF-8 and on an engine
\* construction error such as a directory with a NUL byte.
C9_InitOutcome ==
  [][(disciplined' /\ last'.op = "init_cache")
       => /\ last'.kind \in {"ok", "err"}
          /\ last'.kind = "ok" =>
               /\ last'.handle \in Addrs \ heap
               /\ heap' = heap \cup {last'.handle}
               /\ store'[last'.handle] = {}
          /\ last'.kind = "err" =>
               /\ last'.handle = NullPtr
               /\ last'.errGiven => errRec' # ""
               /\ heap' = heap
               /\ store' = store
          /\ (BadInitArgs(last') \/ last'.fault # "none") => last'.kind = "err"
          /\ \A a \in heap : store'[a] = store[a]]_vars

\* a second instance was allocated next to one holding a module
C9_Witness ==
  /\ last.op = "init_cache" /\ last.kind = "ok"
  /\ heap = Addrs
  /\ \E a \in heap \ {last.handle} : store[a] # {}

\* C10: while the host releases each handle at most once and uses none after
\* its release, and no drop of an instance has panicked, the allocated
\* instances are exactly the handles created and not yet released;
\* release_cache(h) frees the instance behind h and no other; init_cache on a
\* fresh host (nothing allocated, empty Error Record) followed at once by
\* release_cache ends with nothing allocated and an empty Error Record.
C10_ReleaseStep ==
  (Defined' /\ OnLive(last', "release_cache"))
    => /\ last'.cache \in heap
       /\ heap' = heap \ {last'.cache}
       /\ hostLive' = hostLive \ {last'.cache}
       /\ \A a \in Addrs \ {last'.cache} : store'[a] = store[a]
       /\ errRec' = errRec

C10_InitStep ==
  (Defined' /\ last'.op = "init_cache" /\ last'.kind = "ok"
     /\ heap = {} /\ errRec = "")
    => /\ heap' = {last'.handle}
       /\ errRec' = ""

C10_ExactlyOnce ==
  /\ [](Defined => heap = hostLive)
  /\ [][C10_ReleaseStep /\ C10_InitStep]_vars

\* one of two live handles was released; the other still holds its module
C10_Witness ==
  /\ Defined /\ OnLive(last, "release_cache")
  /\ Cardinality(heap) = 1
  /\ last.cache \notin heap
  /\ \E a \in heap : store[a] # {}

\* C11: release_cache with a null handle is a no-op: it frees nothing, changes
\* no cache instance and no Error Record, and can be called in every state,
\* any number of times.
C11_NullStep ==
  (last'.op = "release_cache" /\ last'.cache = NullPtr)
    => /\ heap' = heap
       /\ store' = store
       /\ hostLive' = hostLive
       /\ returned' = returned
       /\ errRec' = errRec
       /\ lastError' = lastError
       /\ Defined'

C11_NullRelease ==
  /\ [](Defined => ENABLED release_cache(NullPtr, "none"))
  /\ [][C11_NullStep]_vars

\* a null release while an instance holds a module and the Error Record holds
\* a message
C11_Witness ==
  /\ last.op = "release_cache" /\ last.cache = NullPtr
  /\ \E a \in heap : store[a] # {}
  /\ errRec # ""

AllEntryOps == {"init_cache", "save_wasm", "load_wasm", "release_cache"}

\* C12: an internal fault raised in any of init_cache, save_wasm, load_wasm
\* and release_cache is contained: it never unwinds out of the call into the
\* host, and where the operation has an error result it comes back as the
\* generic internal-fault error.
C12_Contained ==
  (last.op \in AllEntryOps /\ last.fault = "panic")
    => /\ last.kind # "panic"
       /\ ~crashed
       /\ last.op # "release_cache" => (last.kind = "err" /\ last.err = panic)

\* C13: a contained fault never invalidates the handle: when save_wasm or
\* load_wasm on a live handle returns the internal-fault error, the handle is
\* still live, its instance and the modules it holds are as before the call,
\* the engine was called once in the call, and afterwards the handle behaves
\* as any live handle: it loads every module it has returned and saves a new
\* valid one.
C13_FaultStep ==
  (Defined' /\ (OnLive(last', "save_wasm") \/ OnLive(last', "load_wasm")) /\ last'.err = panic)
    => /\ last'.cache \in heap'
       /\ heap' = heap
       /\ hostLive' = hostLive
       /\ store' = store
       /\ returned' = returned
       /\ last'.calls = 1

C13_AfterFault ==
  (Defined /\ (OnLive(last, "save_wasm") \/ OnLive(last, "load_wasm")) /\ last.err = panic)
    => /\ \A p \in returned[last.cache] :
            load_wasm_result(last.cache, store[last.cache], Buf(p.checksum), "none")
              = Ok(p.wasm, TRUE)
       /\ \A m \in {w \in Modules : check_wasm(w)} :
            LET d == save_wasm_result(last.cache, store[last.cache], Buf(m), "none")
            IN d.res = Ok(Digest(m), TRUE) /\ m \in {e.wasm : e \in d.store}

C13_HandleSurvives ==
  /\ []C13_AfterFault
  /\ [][C13_FaultStep]_vars

\* save_wasm panicked in the engine on a handle that holds a module
C13_Witness ==
  /\ OnLive(last, "save_wasm") /\ last.err = panic
  /\ last.cache \in heap
  /\ returned[last.cache] # {}

\* what a call gives back and leaves in the caches, apart from the Error Record
InitOutcome(c) == [res |-> c.res, handle |-> c.handle, boxed |-> c.boxed]
SaveOutcome(c) == [res |-> c.res, ret |-> c.ret, store |-> c.store]
LoadOutcome(c) == [res |-> c.res, ret |-> c.ret]

\* the arguments the calls are compared for: every input with the engine
\* answering, and one valid input with the engine panicking
C14_InitCases ==
  (InitInputs \X CacheSizeInputs \X MemoryLimitInputs \X {"none"})
    \cup {<<<<Buf(<<97>>), Buf(<<97>>)>>, 512, 32, "panic">>}
C14_SaveCases == (WasmInputs \X {"none"}) \cup {<<Buf(<<0>>), "panic">>}
C14_LoadCases == (ChecksumInputs \X {"none"}) \cup {<<Buf(Digest(<<0>>)), "panic">>}

\* C14: giving or omitting err never changes the outcome: from every
\* reachable state and for every choice of the other arguments, init_cache,
\* save_wasm and load_wasm return the same value and leave the same cache
\* state with err present as with err absent; with err absent a failing call
\* fails with the same error, unwinds nothing and leaves the host's Error
\* Record alone.
C14_ErrIrrelevant ==
  Defined =>
    /\ \A x \in C14_InitCases, a \in Addrs \ heap :
         \E with \in {init_cache_call(x[1][1], x[1][2], x[2], x[3], TRUE, x[4], a,
                                      errRec, UsizeBits)},
            without \in {init_cache_call(x[1][1], x[1][2], x[2], x[3], FALSE, x[4], a,
                                         errRec, UsizeBits)} :
            /\ InitOutcome(with) = InitOutcome(without)
            /\ without.res.kind # "panic"
            /\ without.errRec = errRec
    /\ \A cache \in heap \cup {NullPtr}, x \in C14_SaveCases :
         \E st \in {IF cache = NullPtr THEN {} ELSE store[cache]} :
         \E with \in {save_wasm_call(cache, st, x[1], TRUE, x[2], errRec)},
            without \in {save_wasm_call(cache, st, x[1], FALSE, x[2], errRec)} :
            /\ SaveOutcome(with) = SaveOutcome(without)
            /\ without.res.kind # "panic"
            /\ without.errRec = errRec
    /\ \A cache \in heap \cup {NullPtr}, x \in C14_LoadCases :
         \E st \in {IF cache = NullPtr THEN {} ELSE store[cache]} :
         \E with \in {load_wasm_call(cache, st, x[1], TRUE, x[2], errRec)},
            without \in {load_wasm_call(cache, st, x[1], FALSE, x[2], errRec)} :
            /\ LoadOutcome(with) = LoadOutcome(without)
            /\ without.res.kind # "panic"
            /\ without.errRec = errRec

\* load_wasm without err failed with not-found: nothing reached the Error
\* Record, and the handle's instance is still there
C14_Witness ==
  /\ OnLive(last, "load_wasm") /\ ~last.errGiven
  /\ last.kind = "err" /\ last.err = not_found
  /\ errRec = "" /\ lastError = to_string(not_found)
  /\ last.cache \in heap

\* C17: no boundary call overwrites or discards an owned buffer the host has
\* not consumed: a call made while the Error Record holds a message leaves
\* that message in place.
C17_NoOverwrite ==
  [][(Defined' /\ last'.op \in AllEntryOps /\ errRec # "") => errRec' = errRec]_vars

\* C19: load_wasm on a live handle with an absent or zero-length checksum
\* buffer reports an empty-argument error that differs from the one it
\* reports for a null handle.
C19_ChecksumNamed ==
  (Defined /\ OnLive(last, "load_wasm") /\ ~read(last.arg).some)
    => /\ last.kind = "err"
       /\ last.err.cat = "empty_arg"
       /\ last.err # load_wasm_result(NullPtr, {}, last.arg, "none").err

\* the call reaches a size conversion that does not fit the target's usize
SizeOverflows(call, bits) ==
  /\ call.op = "init_cache"
  /\ read(call.arg).some /\ IsUtf8(read(call.arg).val)
  /\ read(call.arg2).some /\ IsUtf8(read(call.arg2).val)
  /\ bits < 32
  /\ call.sizes[1] >= 2 ^ bits \/ call.sizes[2] >= 2 ^ bits

\* C18 as stated: when a size conversion overflows, init_cache never returns
\* to the host with a null handle and a populated Error Record.
C18_Abort ==
  (SizeOverflows(last, NarrowUsizeBits) /\ last.errGiven)
    => ~(Defined /\ ~crashed /\ last.handle = NullPtr /\ errRec # "")

\* C18: when the conversion of cache_size or instance_memory_limit overflows
\* the target's usize, init_cache panics inside its catch_unwind: the call
\* returns a null handle with the generic internal-fault error (in the Error
\* Record when one is given), the engine is never reached, nothing is
\* allocated, and the process goes on.
C18_OverflowStep ==
  SizeOverflows(last', NarrowUsizeBits)
    => /\ last'.kind = "err" /\ last'.err = panic
       /\ last'.handle = NullPtr
       /\ ~last'.engine
       /\ heap' = heap /\ store' = store /\ hostLive' = hostLive
       /\ errRec' = IF last'.errGiven THEN to_string(panic) ELSE errRec
       /\ lastError' = to_string(panic)
       /\ Defined' /\ ~crashed'

C18_OverflowContained == [][C18_OverflowStep]_vars

\* init_cache came back from an overflowing cache_size while an instance is
\* allocated
C18_Witness ==
  /\ SizeOverflows(last, NarrowUsizeBits)
  /\ last.sizes[1] = 2 ^ NarrowUsizeBits
  /\ last.errGiven /\ errRec = to_string(panic)
  /\ last.handle = NullPtr
  /\ heap # {}

====
